---- MODULE Spec2Model ----
(***************************************************************************)
(* Model of src/src/pixel_shuffle.py: the sampler (analyze_pixel_art), the *)
(* shuffler (shuffle_pixels), the reconstructor (reconstruct_pixel_art)    *)
(* and the session state kept by main().                                   *)
(*                                                                         *)
(* Python strings are sequences of one-character strings, Python dicts     *)
(* with computed keys are sequences of <<key, value>> pairs in insertion   *)
(* order, and dict objects live in a heap so that aliasing is visible.     *)
(***************************************************************************)
EXTENDS Integers, Sequences, FiniteSets, Bags, TLC

VARIABLES
    heap,            \* Ref -> dict object (pixel_data, metadata or pixels dict)
    image,           \* the raster handed to analyze_pixel_art (API driver)
    pixel_size,      \* the pixel_size argument of analyze_pixel_art (API driver)
    grid,            \* Ref of the grid under test, or None
    prev,            \* Ref of the grid the last shuffle_pixels call was given, or None
    img,             \* the raster returned by the last reconstruct_pixel_art call, or None
    error,           \* exception raised by the last call, "none" if it returned
    last,            \* the last operation that acted
    uploads,         \* file name -> raster: the files offered by st.file_uploader
    selected,        \* the file name the selectbox held at the last script run
    pixel_data_dict, \* st.session_state.pixel_data_dict: file name -> entry
    animation_state  \* st.session_state.animation_state

vars == <<heap, image, pixel_size, grid, prev, img, error, last,
          uploads, selected, pixel_data_dict, animation_state>>

\* Python's None where a Ref is expected; Refs are 1, 2, ...
None == 0

\* no raster yet
NoImage == [width |-> 0, height |-> 0, px |-> <<>>]

\* ---------------------------------------------------------------- bounds
MaxW == 3
MaxH == 2
MaxBlock == 3
MaxCells == 4

\* ------------------------------------------------------- program constants
DefaultPixelSize == 25

\* (41, 41, 41): the colour analyze_pixel_art leaves out
BackgroundTuple == <<41, 41, 41>>

\* "rgb(41, 41, 41)": the literal shuffle_pixels compares against
BackgroundLiteral ==
    <<"r", "g", "b", "(", "4", "1", ",", " ", "4", "1", ",", " ", "4", "1", ")">>

\* Image.new(..., color='black')
Black == <<0, 0, 0>>

\* ------------------------------------------------------------- str / int
DigitChars == <<"0", "1", "2", "3", "4", "5", "6", "7", "8", "9">>

DigitVal(c) == (CHOOSE i \in 1..10 : DigitChars[i] = c) - 1

\* str(n) of a Python int
RECURSIVE Str(_)
Str(n) ==
    IF n < 0 THEN <<"-">> \o Str(-n)
    ELSE IF n < 10 THEN <<DigitChars[n + 1]>>
    ELSE Str(n \div 10) \o <<DigitChars[(n % 10) + 1]>>

\* s.strip(chars): leading and trailing characters of the set removed
RECURSIVE LStrip(_, _)
LStrip(s, chars) ==
    IF s # <<>> /\ Head(s) \in chars THEN LStrip(Tail(s), chars) ELSE s

RECURSIVE RStrip(_, _)
RStrip(s, chars) ==
    IF s # <<>> /\ s[Len(s)] \in chars
    THEN RStrip(SubSeq(s, 1, Len(s) - 1), chars)
    ELSE s

Strip(s, chars) == RStrip(LStrip(s, chars), chars)

\* s.split(sep) for a one-character separator
RECURSIVE SplitFrom(_, _, _, _)
SplitFrom(s, sep, i, cur) ==
    IF i > Len(s) THEN <<cur>>
    ELSE IF s[i] = sep THEN <<cur>> \o SplitFrom(s, sep, i + 1, <<>>)
    ELSE SplitFrom(s, sep, i + 1, Append(cur, s[i]))

Split(s, sep) == SplitFrom(s, sep, 1, <<>>)

RECURSIVE DigitsValue(_, _)
DigitsValue(s, acc) ==
    IF s = <<>> THEN acc ELSE DigitsValue(Tail(s), 10 * acc + DigitVal(Head(s)))

\* int(s): surrounding whitespace ignored, optional sign, decimal digits
PyInt(s) ==
    LET t == Strip(s, {" "})
    IN  IF t # <<>> /\ Head(t) = "-" THEN 0 - DigitsValue(Tail(t), 0)
        ELSE DigitsValue(t, 0)

\* Python's a // b (floor division), b # 0
FloorDiv(a, b) ==
    IF b > 0 THEN a \div b ELSE (0 - a) \div (0 - b)

\* list(range(start, stop, step)), step # 0
RECURSIVE Range(_, _, _)
Range(start, stop, step) ==
    IF (step > 0 /\ start < stop) \/ (step < 0 /\ start > stop)
    THEN <<start>> \o Range(start + step, stop, step)
    ELSE <<>>

\* f"rgb{color}" for a tuple of three ints: "rgb" + repr(color)
FormatColor(color) ==
    <<"r", "g", "b", "(">> \o Str(color[1]) \o <<",", " ">> \o Str(color[2])
        \o <<",", " ">> \o Str(color[3]) \o <<")">>

\* f"{x},{y}"
CoordKey(x, y) == Str(x) \o <<",">> \o Str(y)

\* x, y = map(int, coord.split(','))
ParseCoord(coord) ==
    LET parts == Split(coord, ",") IN <<PyInt(parts[1]), PyInt(parts[2])>>

\* tuple(map(int, color.strip('rgb()').split(',')))
ParseColor(color) ==
    LET parts == Split(Strip(color, {"r", "g", "b", "(", ")"}), ",")
    IN  [i \in 1..Len(parts) |-> PyInt(parts[i])]

\* ------------------------------------------------------------------ dict
\* d[k] = v on an insertion-ordered dict
DictSet(d, k, v) ==
    IF \E i \in 1..Len(d) : d[i][1] = k
    THEN [i \in 1..Len(d) |-> IF d[i][1] = k THEN <<k, v>> ELSE d[i]]
    ELSE Append(d, <<k, v>>)

\* ------------------------------------------------------------------ heap
\* a fresh object identity
Alloc(h) == CHOOSE r \in 1..(Cardinality(DOMAIN h) + 1) : r \notin DOMAIN h

\* what the garbage collector keeps: the objects reachable from the roots
Reachable(h, roots) ==
    LET outer == roots \ {None}
    IN  outer \cup {h[r].metadata : r \in outer} \cup {h[r].pixels : r \in outer}

Collect(h, roots) == [r \in Reachable(h, roots) |-> h[r]]

\* ---------------------------------------------------- analyze_pixel_art
\* SampleRow with the key written row first: f"{y // pixel_size},{x // pixel_size}"
RECURSIVE SampleRowSwappedKey(_, _, _, _, _)
SampleRowSwappedKey(im, ps, y, xs, pixels) ==
    IF xs = <<>> THEN pixels
    ELSE LET x == Head(xs)
             color == im.px[<<x, y>>]
         IN  SampleRowSwappedKey(im, ps, y, Tail(xs),
                 IF color # BackgroundTuple
                 THEN DictSet(pixels, CoordKey(FloorDiv(y, ps), FloorDiv(x, ps)),
                              FormatColor(color))
                 ELSE pixels)

\* SampleRow leaving out (0, 0, 0), as its comment says, instead of (41, 41, 41)
RECURSIVE SampleRowOmitsBlack(_, _, _, _, _)
SampleRowOmitsBlack(im, ps, y, xs, pixels) ==
    IF xs = <<>> THEN pixels
    ELSE LET x == Head(xs)
             color == im.px[<<x, y>>]
         IN  SampleRowOmitsBlack(im, ps, y, Tail(xs),
                 IF color # Black
                 THEN DictSet(pixels, CoordKey(FloorDiv(x, ps), FloorDiv(y, ps)),
                              FormatColor(color))
                 ELSE pixels)

\* the inner loop: for x in range(0, width, pixel_size)
RECURSIVE SampleRow(_, _, _, _, _)
SampleRow(im, ps, y, xs, pixels) ==
    IF xs = <<>> THEN pixels
    ELSE LET x == Head(xs)
             color == im.px[<<x, y>>]
         IN  SampleRow(im, ps, y, Tail(xs),
                 IF color # BackgroundTuple
                 THEN DictSet(pixels, CoordKey(FloorDiv(x, ps), FloorDiv(y, ps)),
                              FormatColor(color))
                 ELSE pixels)

\* the outer loop: for y in range(0, height, pixel_size)
RECURSIVE SampleRows(_, _, _, _)
SampleRows(im, ps, ys, pixels) ==
    IF ys = <<>> THEN pixels
    ELSE SampleRows(im, ps, Tail(ys),
             SampleRow(im, ps, Head(ys), Range(0, im.width, ps), pixels))

\* range(0, height, 0) raises ValueError before anything is returned
AnalyzeRaises(im, ps) == ps = 0

\* the heap after the call and the Ref of the returned pixel_data
analyze_pixel_art(h, im, ps) ==
    LET m == Alloc(h)
        h1 == h @@ (m :> [width |-> im.width, height |-> im.height, pixel_size |-> ps])
        p == Alloc(h1)
        h2 == h1 @@ (p :> <<>>)
        o == Alloc(h2)
        h3 == h2 @@ (o :> [metadata |-> m, pixels |-> p])
        filled == SampleRows(im, ps, Range(0, im.height, ps), <<>>)
    IN  [heap |-> [h3 EXCEPT ![p] = filled], ref |-> o]

\* ------------------------------------------------------- shuffle_pixels
\* colored_pixels: (x, y, color) of every entry that is not the background literal
RECURSIVE ColoredPixels(_)
ColoredPixels(pixels) ==
    IF pixels = <<>> THEN <<>>
    ELSE LET xy == ParseCoord(Head(pixels)[1])
             color == Head(pixels)[2]
         IN  (IF color # BackgroundLiteral THEN <<<<xy[1], xy[2], color>>>> ELSE <<>>)
                 \o ColoredPixels(Tail(pixels))

\* AvailablePositions with the appended pair written (y, x)
AvailablePositionsSwapped(grid_width, grid_height) ==
    LET xs == Range(0, grid_width, 1)
        ys == Range(0, grid_height, 1)
    IN  [i \in 1..(Len(xs) * Len(ys)) |->
            <<ys[((i - 1) \div Len(xs)) + 1], xs[((i - 1) % Len(xs)) + 1]>>]

\* available_positions before random.shuffle: rows of the grid, left to right
AvailablePositions(grid_width, grid_height) ==
    LET xs == Range(0, grid_width, 1)
        ys == Range(0, grid_height, 1)
    IN  [i \in 1..(Len(xs) * Len(ys)) |->
            <<xs[((i - 1) % Len(xs)) + 1], ys[((i - 1) \div Len(xs)) + 1]>>]

RECURSIVE Orderings(_)
Orderings(S) ==
    IF S = {} THEN {<<>>}
    ELSE UNION {{<<x>> \o rest : rest \in Orderings(S \ {x})} : x \in S}

\* every list random.shuffle(positions) can leave behind
ShuffleOutcomes(positions) ==
    {[i \in 1..Len(positions) |-> positions[o[i]]] : o \in Orderings(1..Len(positions))}

\* for i, (_, _, color) in enumerate(colored_pixels): place it if a position is left
RECURSIVE PlaceColors(_, _, _, _)
PlaceColors(colored, positions, i, pixels) ==
    IF i >= Len(colored) THEN pixels
    ELSE PlaceColors(colored, positions, i + 1,
             IF i < Len(positions)
             THEN DictSet(pixels, CoordKey(positions[i + 1][1], positions[i + 1][2]),
                          colored[i + 1][3])
             ELSE pixels)

GridWidth(meta) == FloorDiv(meta.width, meta.pixel_size)

GridHeight(meta) == FloorDiv(meta.height, meta.pixel_size)

\* shuffle_pixels without the .copy() of the metadata
shuffle_pixels_shared_metadata(h, ref, positions) ==
    LET colored == ColoredPixels(h[h[ref].pixels])
        p == Alloc(h)
        h2 == h @@ (p :> <<>>)
        o == Alloc(h2)
        h3 == h2 @@ (o :> [metadata |-> h[ref].metadata, pixels |-> p])
    IN  [heap |-> [h3 EXCEPT ![p] = PlaceColors(colored, positions, 0, <<>>)],
         ref |-> o]

\* shuffle_pixels writing the placed colours into the dict it was given
shuffle_pixels_in_place(h, ref, positions) ==
    LET colored == ColoredPixels(h[h[ref].pixels])
    IN  [heap |-> [h EXCEPT ![h[ref].pixels] = PlaceColors(colored, positions, 0, <<>>)],
         ref |-> ref]

\* the heap after the call and the Ref of shuffled_data; positions is the list
\* random.shuffle left behind
shuffle_pixels(h, ref, positions) ==
    LET meta == h[h[ref].metadata]
        colored == ColoredPixels(h[h[ref].pixels])
        m == Alloc(h)
        h1 == h @@ (m :> meta)
        p == Alloc(h1)
        h2 == h1 @@ (p :> <<>>)
        o == Alloc(h2)
        h3 == h2 @@ (o :> [metadata |-> m, pixels |-> p])
    IN  [heap |-> [h3 EXCEPT ![p] = PlaceColors(colored, positions, 0, <<>>)],
         ref |-> o]

\* ------------------------------------------------- reconstruct_pixel_art
\* the two fill loops for one entry, clipped to the image
FillBlock(px, ps, x, y, rgb) ==
    [q \in DOMAIN px |->
        IF /\ (q[1] - x * ps) \in 0..(ps - 1)
           /\ (q[2] - y * ps) \in 0..(ps - 1)
        THEN rgb ELSE px[q]]

RECURSIVE FillBlocks(_, _, _)
FillBlocks(px, ps, pixels) ==
    IF pixels = <<>> THEN px
    ELSE LET xy == ParseCoord(Head(pixels)[1])
             rgb == ParseColor(Head(pixels)[2])
         IN  FillBlocks(FillBlock(px, ps, xy[1], xy[2], rgb), ps, Tail(pixels))

reconstruct_pixel_art(h, ref) ==
    LET meta == h[h[ref].metadata]
        blank == [q \in (0..(meta.width - 1)) \X (0..(meta.height - 1)) |-> Black]
    IN  [width |-> meta.width, height |-> meta.height,
         px |-> FillBlocks(blank, meta.pixel_size, h[h[ref].pixels])]

\* --------------------------------------------------------------- inputs
Palette == <<BackgroundTuple, <<255, 0, 0>>, Black>>

\* an RGB raster (what image.convert('RGB') hands to np.array) whose colour
\* changes every g pixels along the directions a and c
MakeImage(w, h, a, c, d, g) ==
    [width |-> w, height |-> h,
     px |-> [q \in (0..(w - 1)) \X (0..(h - 1)) |->
                Palette[((a * (q[1] \div g) + c * (q[2] \div g) + d) % Len(Palette)) + 1]]]

Images(W, H, G) ==
    {MakeImage(w, h, a, c, d, g) :
        w \in W, h \in H, a \in 0..1, c \in 0..1, d \in 0..(Len(Palette) - 1), g \in G}

BlockSizes == (0 - 1)..MaxBlock

\* how many blocks analyze_pixel_art visits
NumSampled(im, ps) ==
    IF ps = 0 THEN 0 ELSE Len(Range(0, im.width, ps)) * Len(Range(0, im.height, ps))

\* ------------------------------------------------- the three calls alone
NoUploads == <<>>

NoSelection == ""

Init ==
    /\ image \in Images(1..MaxW, 1..MaxH, 1..MaxBlock)
    /\ pixel_size \in BlockSizes
    /\ NumSampled(image, pixel_size) <= MaxCells
    /\ heap = <<>>
    /\ grid = None
    /\ prev = None
    /\ img = NoImage
    /\ error = "none"
    /\ last = "init"
    /\ uploads = NoUploads
    /\ selected = NoSelection
    /\ pixel_data_dict = <<>>
    /\ animation_state = "initializing"

\* grid = analyze_pixel_art(image, pixel_size)
Sample ==
    /\ last = "init"
    /\ IF AnalyzeRaises(image, pixel_size)
       THEN /\ error' = "ValueError"
            /\ UNCHANGED <<heap, grid>>
       ELSE LET r == analyze_pixel_art(heap, image, pixel_size)
            IN  /\ heap' = Collect(r.heap, {r.ref})
                /\ grid' = r.ref
                /\ error' = "none"
    /\ last' = "sample"
    /\ UNCHANGED <<image, pixel_size, prev, img, uploads, selected,
                   pixel_data_dict, animation_state>>

\* prev = grid; grid = shuffle_pixels(prev)
Shuffle ==
    /\ grid # None
    /\ LET h0 == Collect(heap, {grid})
           meta == h0[h0[grid].metadata]
       IN  \E positions \in ShuffleOutcomes(
                   AvailablePositions(GridWidth(meta), GridHeight(meta))) :
               LET r == shuffle_pixels(h0, grid, positions)
               IN  /\ heap' = Collect(r.heap, {grid, r.ref})
                   /\ grid' = r.ref
    /\ prev' = grid
    /\ img' = NoImage
    /\ last' = "shuffle"
    /\ UNCHANGED <<image, pixel_size, error, uploads, selected, pixel_data_dict,
                   animation_state>>

\* img = reconstruct_pixel_art(grid)
Reconstruct ==
    /\ grid # None
    /\ img' = reconstruct_pixel_art(heap, grid)
    /\ last' = "reconstruct"
    /\ UNCHANGED <<heap, image, pixel_size, grid, prev, error, uploads, selected,
                   pixel_data_dict, animation_state>>

Next == Sample \/ Shuffle \/ Reconstruct

Spec == Init /\ [][Next]_vars

\* ------------------------------------------------------ main(): the session
\* the names of the uploaded files
Names == {"a.png"}

\* the uploaded rasters: smaller than one block, two whole blocks, two whole
\* blocks above a partial row of blocks, and two by two whole blocks
UIImages ==
    {MakeImage(wh[1], wh[2], a, a, d, DefaultPixelSize) :
        wh \in {<<10, 10>>, <<50, 25>>, <<50, 30>>, <<50, 50>>}, a \in 0..1, d \in 0..1}

\* every grid object the session state refers to
SessionRoots(dict) ==
    {dict[n].original_data : n \in DOMAIN dict} \cup {dict[n].current_data : n \in DOMAIN dict}

\* if selected_file.name not in st.session_state.pixel_data_dict: analyze and store
ProcessSelected(h, dict, name) ==
    IF name \in DOMAIN dict THEN [heap |-> h, dict |-> dict]
    ELSE LET r == analyze_pixel_art(h, uploads[name], DefaultPixelSize)
         IN  [heap |-> r.heap,
              dict |-> dict @@ (name :> [original_data |-> r.ref,
                                         current_data |-> None,
                                         image |-> name,
                                         is_built |-> FALSE,
                                         current_image |-> NoImage])]

\* current_data['original_data'].copy(): a new outer dict holding the same objects
ShallowCopy(h, ref) ==
    LET o == Alloc(h) IN [heap |-> h @@ (o :> h[ref]), ref |-> o]

\* the BUILD branch on the selected entry
BuildEntry(h, entry) ==
    LET c == ShallowCopy(h, entry.original_data)
    IN  [heap |-> c.heap,
         entry |-> [entry EXCEPT
                        !.current_image = reconstruct_pixel_art(h, entry.original_data),
                        !.current_data = c.ref,
                        !.is_built = TRUE]]

\* the SHAKE branch on the selected entry
ShakeEntry(h, entry, positions) ==
    LET r == shuffle_pixels(h, entry.current_data, positions)
    IN  [heap |-> r.heap,
         entry |-> [entry EXCEPT
                        !.current_data = r.ref,
                        !.current_image = reconstruct_pixel_art(r.heap, r.ref)]]

InitUI ==
    /\ uploads \in [Names -> UIImages]
    /\ selected = NoSelection
    /\ pixel_data_dict = <<>>
    /\ animation_state = "initializing"
    /\ heap = <<>>
    /\ last = "init"
    /\ error = "none"
    /\ image = NoImage
    /\ pixel_size = DefaultPixelSize
    /\ grid = None
    /\ prev = None
    /\ img = NoImage

\* a script run with name chosen in the selectbox and no button pressed
Select(name) ==
    /\ LET s == ProcessSelected(heap, pixel_data_dict, name)
       IN  /\ heap' = Collect(s.heap, SessionRoots(s.dict))
           /\ pixel_data_dict' = s.dict
    /\ selected' = name
    /\ last' = "select"
    /\ UNCHANGED <<image, pixel_size, grid, prev, img, error, uploads, animation_state>>

\* a script run in which st.button("BUILD") returns True
Build ==
    /\ selected # NoSelection
    /\ LET s == ProcessSelected(heap, pixel_data_dict, selected)
           b == BuildEntry(s.heap, s.dict[selected])
           dict == [s.dict EXCEPT ![selected] = b.entry]
       IN  /\ heap' = Collect(b.heap, SessionRoots(dict))
           /\ pixel_data_dict' = dict
    /\ animation_state' = "ready"
    /\ last' = "BUILD"
    /\ UNCHANGED <<image, pixel_size, grid, prev, img, error, uploads, selected>>

\* a script run in which st.button("SHAKE") returns True: the button exists
\* only under current_data.get('is_built')
Shake ==
    /\ selected # NoSelection
    /\ LET s == ProcessSelected(heap, pixel_data_dict, selected)
           entry == s.dict[selected]
           meta == s.heap[s.heap[entry.current_data].metadata]
       IN  /\ entry.is_built
           /\ \E positions \in ShuffleOutcomes(
                      AvailablePositions(GridWidth(meta), GridHeight(meta))) :
                  LET k == ShakeEntry(s.heap, entry, positions)
                      dict == [s.dict EXCEPT ![selected] = k.entry]
                  IN  /\ heap' = Collect(k.heap, SessionRoots(dict))
                      /\ pixel_data_dict' = dict
    /\ animation_state' = "shaking"
    /\ last' = "SHAKE"
    /\ UNCHANGED <<image, pixel_size, grid, prev, img, error, uploads, selected>>

NextUI == (\E name \in Names : Select(name)) \/ Build \/ Shake

SpecUI == InitUI /\ [][NextUI]_vars

\* ------------------------------------------------ reading a grid's objects
Cells(r) == heap[heap[r].pixels]

Meta(r) == heap[heap[r].metadata]

\* the multiset of the colours stored in a cells dict
ColorBag(pixels) ==
    LET colors == {pixels[i][2] : i \in 1..Len(pixels)}
    IN  [c \in colors |-> Cardinality({i \in 1..Len(pixels) : pixels[i][2] = c})]

\* the cells analyze_pixel_art(image, pixel_size) returns
SampledCells == SampleRows(image, pixel_size, Range(0, image.height, pixel_size), <<>>)

\* the number of positions shuffle_pixels enumerates for a grid
NumPositions(r) == Len(AvailablePositions(GridWidth(Meta(r)), GridHeight(Meta(r))))

Min(a, b) == IF a < b THEN a ELSE b

\* pixel q lies in the block square of some stored cell
Covered(pixels, ps, q) ==
    \E i \in 1..Len(pixels) :
        LET xy == ParseCoord(pixels[i][1])
        IN  /\ xy[1] * ps <= q[1] /\ q[1] < (xy[1] + 1) * ps
            /\ xy[2] * ps <= q[2] /\ q[2] < (xy[2] + 1) * ps

\* the block positions (col, row) with col*b < width and row*b < height
BlockPositions(im, b) ==
    {cr \in (0..im.width) \X (0..im.height) : cr[1] * b < im.width /\ cr[2] * b < im.height}

\* width and height are multiples of b and every b x b block has one colour
SolidAligned(im, b) ==
    /\ im.width % b = 0
    /\ im.height % b = 0
    /\ \A q \in DOMAIN im.px :
           im.px[q] = im.px[<<(q[1] \div b) * b, (q[2] \div b) * b>>]

\* ----------------------------------------------------------------- claims

\* C1: for every grid G that analyze_pixel_art can return for a positive
\* pixel_size, the multiset of colours in shuffle_pixels(G) equals the multiset
\* of colours in G.
C1_ShufflePreservesColors ==
    (/\ last = "shuffle"
     /\ pixel_size > 0
     /\ Cells(prev) = SampledCells)
        => ColorBag(Cells(grid)) = ColorBag(Cells(prev))

\* C2: the image reconstruct_pixel_art returns has the metadata's width and
\* height, and every pixel outside every stored cell's block square is (41,41,41).
C2_ReconstructBounds ==
    last = "reconstruct" =>
        /\ img.width = Meta(grid).width
        /\ img.height = Meta(grid).height
        /\ DOMAIN img.px = (0..(Meta(grid).width - 1)) \X (0..(Meta(grid).height - 1))
        /\ \A q \in DOMAIN img.px :
               ~Covered(Cells(grid), Meta(grid).pixel_size, q) => img.px[q] = BackgroundTuple

\* C3: every coordinate stored by shuffle_pixels lies inside the
\* (width // pixel_size) x (height // pixel_size) grid, and every placed colour
\* has a coordinate of its own: as many cells are stored as colours were placed.
C3_ShufflePositionsValid ==
    last = "shuffle" =>
        LET cells == Cells(grid)
        IN  /\ \A i \in 1..Len(cells) :
                   LET xy == ParseCoord(cells[i][1])
                   IN  /\ 0 <= xy[1] /\ xy[1] < GridWidth(Meta(grid))
                       /\ 0 <= xy[2] /\ xy[2] < GridHeight(Meta(grid))
            /\ \A i, j \in 1..Len(cells) : cells[i][1] = cells[j][1] => i = j
            /\ Len(cells) = Min(Len(ColoredPixels(Cells(prev))), NumPositions(prev))

C3_Witness ==
    /\ last = "shuffle"
    /\ Len(Cells(grid)) >= 3
    /\ GridWidth(Meta(grid)) >= 2
    /\ GridHeight(Meta(grid)) >= 2

\* C4: analyze_pixel_art called with pixel_size <= 0 raises and returns no grid.
C4_NonPositiveRejected ==
    (last = "sample" /\ pixel_size <= 0) => (error # "none" /\ grid = None)

\* C5: in a grid sampled with a positive pixel_size, and in every grid shuffled
\* from it, the coloured cells never outnumber the positions shuffle_pixels
\* enumerates.
C5_NeverOverCapacity ==
    (grid # None /\ pixel_size > 0) =>
        Len(ColoredPixels(Cells(grid))) <= NumPositions(grid)

\* C6: for a positive pixel_size b the sampled cells are exactly the block
\* positions (col, row) whose top-left pixel (col*b, row*b) is not (41,41,41),
\* each holding that pixel's RGB value.
C6_SampleExact ==
    (last = "sample" /\ pixel_size > 0) =>
        LET cells == Cells(grid)
            b == pixel_size
            want == {cr \in BlockPositions(image, b) :
                        image.px[<<cr[1] * b, cr[2] * b>>] # BackgroundTuple}
        IN  /\ {ParseCoord(cells[i][1]) : i \in 1..Len(cells)} = want
            /\ Len(cells) = Cardinality(want)
            /\ \A i \in 1..Len(cells) :
                   LET cr == ParseCoord(cells[i][1])
                   IN  ParseColor(cells[i][2]) = image.px[<<cr[1] * b, cr[2] * b>>]
            /\ Meta(grid) = [width |-> image.width, height |-> image.height,
                             pixel_size |-> b]

C6_Witness ==
    /\ last = "sample"
    /\ pixel_size >= 2
    /\ image.width % pixel_size # 0
    /\ Len(Cells(grid)) >= 1
    /\ Len(Cells(grid)) < NumSampled(image, pixel_size)
    /\ ~SolidAligned(image, pixel_size)

\* C7: for an image whose width and height are multiples of b and whose b x b
\* blocks are solid, reconstructing the sampled grid gives back the image's
\* colour at every sampled position (col*b, row*b).
C7_RoundTrip ==
    (/\ last = "reconstruct"
     /\ prev = None
     /\ pixel_size > 0
     /\ SolidAligned(image, pixel_size))
        => \A cr \in BlockPositions(image, pixel_size) :
               LET q == <<cr[1] * pixel_size, cr[2] * pixel_size>>
               IN  img.px[q] = image.px[q]

\* C8: a shuffle_pixels call leaves the objects of its input grid as they were
\* and returns a grid made of other objects, whose metadata has the same values.
C8_ShuffleDoesNotMutate ==
    [][last' = "shuffle" =>
          LET o == grid
              m == heap[grid].metadata
              p == heap[grid].pixels
          IN  /\ {o, m, p} \subseteq DOMAIN heap'
              /\ heap'[o] = heap[o]
              /\ heap'[m] = heap[m]
              /\ heap'[p] = heap[p]
              /\ {grid', heap'[grid'].metadata, heap'[grid'].pixels} \cap {o, m, p} = {}
              /\ heap'[heap'[grid'].metadata] = heap[m]]_vars

C8_Witness ==
    /\ last = "shuffle"
    /\ Len(Cells(prev)) >= 2
    /\ Len(Cells(grid)) >= 2
    /\ Cells(grid) # Cells(prev)

\* C9: no grid returned by analyze_pixel_art or by any later shuffle_pixels
\* stores the background colour.
C9_BackgroundOmitted ==
    grid # None =>
        \A i \in 1..Len(Cells(grid)) :
            /\ Cells(grid)[i][2] # BackgroundLiteral
            /\ ParseColor(Cells(grid)[i][2]) # BackgroundTuple

C9_Witness ==
    /\ last = "shuffle"
    /\ Cells(prev) = SampledCells
    /\ Len(Cells(grid)) >= 1
    /\ Len(SampledCells) < NumSampled(image, pixel_size)

\* C10: in the session state of every uploaded file, (i) SHAKE has acted only
\* on a built entry and a built entry's current_data is a grid, never None;
\* (ii) original_data is still the grid analyze_pixel_art returned for the
\* upload; (iii) right after BUILD, current_data's cells equal original_data's.
C10_SessionState ==
    \A n \in DOMAIN pixel_data_dict :
        LET e == pixel_data_dict[n]
            im == uploads[n]
        IN  /\ (last = "SHAKE" /\ n = selected) => e.is_built
            /\ e.is_built =>
                   /\ e.current_data # None
                   /\ e.current_data \in DOMAIN heap
                   /\ {heap[e.current_data].metadata, heap[e.current_data].pixels}
                          \subseteq DOMAIN heap
            /\ Cells(e.original_data) =
                   SampleRows(im, DefaultPixelSize, Range(0, im.height, DefaultPixelSize), <<>>)
            /\ Meta(e.original_data) =
                   [width |-> im.width, height |-> im.height, pixel_size |-> DefaultPixelSize]
            /\ (last = "BUILD" /\ n = selected) =>
                   Cells(e.current_data) = Cells(e.original_data)

C10_Witness ==
    /\ last = "SHAKE"
    /\ selected \in DOMAIN pixel_data_dict
    /\ LET e == pixel_data_dict[selected]
       IN  /\ e.is_built
           /\ Len(Cells(e.original_data)) >= 2
           /\ Len(Cells(e.current_data)) >= 2
           /\ Cells(e.current_data) # Cells(e.original_data)

====
